---- MODULE Spec2Model ----
(***************************************************************************)
(* Model of the data-access layer of the skill journal (initialScript.py): *)
(* the five SQLite tables, the helper functions that read and write them,  *)
(* and the form handlers of SkillJournalApp that validate user input       *)
(* before calling the helpers.                                             *)
(*                                                                         *)
(* A table is the set of its rows (records named after the columns).       *)
(* INTEGER PRIMARY KEY AUTOINCREMENT is the counter sqlite_sequence: a     *)
(* rowid is never reused.  Text typed into widgets (reflection content,    *)
(* entry values) is a sequence of one-character strings, so that strip()   *)
(* and float() are computed; names are plain strings.                      *)
(***************************************************************************)
EXTENDS Integers, Sequences, FiniteSets, TLC

VARIABLES Skills, FormFields, Reflections, ReflectionEntries,
          GenericReflections, sqlite_sequence, now, last, schema,
          connections

vars == <<Skills, FormFields, Reflections, ReflectionEntries,
          GenericReflections, sqlite_sequence, now, last, schema,
          connections>>

tables == <<Skills, FormFields, Reflections, ReflectionEntries,
            GenericReflections, sqlite_sequence>>

(***************************************************************************)
(* Bounds of the model.                                                    *)
(***************************************************************************)
MaxReflections == 1
MaxGeneric == 2
MaxTime == 2
MaxTextLen == 2
MaxCapFieldRows == 6
MaxCapReflections == 1
MaxFormReflections == 1
MaxSkills == 2
MaxListReflections == 2
MaxListGeneric == 1
MaxDashRows == 2
MaxRatingReflections == 2
MaxInitSkills == 1
MaxInitFields == 1
MaxInitGeneric == 1
MaxEditReflections == 1
MaxNamedSkills == 2
MaxUnknownReflections == 1
MaxUnknownGeneric == 1
MaxDeleteReflections == 1
MaxDeleteGeneric == 1
MaxOwnReflections == 1
MaxRaceFieldRows == 6
MaxConnReflections == 1

(***************************************************************************)
(* Program constants.                                                      *)
(***************************************************************************)
\* deleted_timestamp timestamp DEFAULT NULL; None in Python.
NULL == 0
\* if count >= 5: a skill cannot have more than 5 active form fields.
MaxActiveFields == 5
\* get_past_reflections(skill_id=None, limit=100)
DefaultLimit == 100
\* num_weeks = 5
num_weeks == 5
\* skill_id == "All": the dashboard's choice of all reflections.
All == -1
\* The instants the model's clock tells apart within one day.
TicksPerDay == 2
\* CHECK(field_type IN ('text', 'number', 'rating1-5'))
FieldTypes == {"text", "number", "rating1-5"}
\* A connection has foreign-key enforcement off unless it runs
\* PRAGMA foreign_keys = ON; only initialize_db's own connection does.
foreign_keys == FALSE

FieldNamePool == <<"Rating", "Minutes", "Notes", "Mood", "Focus", "Tempo",
                   "Goal", "Place", "Extra">>

Min(a, b) == IF a < b THEN a ELSE b
Range(q) == {q[i] : i \in DOMAIN q}

(***************************************************************************)
(* The database a connection sees, as one value, so that a helper is an    *)
(* operator from the database at connect() to the database it leaves       *)
(* behind at close().                                                      *)
(***************************************************************************)
DB == [Skills |-> Skills, FormFields |-> FormFields,
       Reflections |-> Reflections, ReflectionEntries |-> ReflectionEntries,
       GenericReflections |-> GenericReflections, seq |-> sqlite_sequence]

Store(db) ==
    /\ Skills' = db.Skills
    /\ FormFields' = db.FormFields
    /\ Reflections' = db.Reflections
    /\ ReflectionEntries' = db.ReflectionEntries
    /\ GenericReflections' = db.GenericReflections
    /\ sqlite_sequence' = db.seq

\* initialize_db on a fresh file: the five tables exist and are empty.
initialize_db ==
    [Skills |-> {}, FormFields |-> {}, Reflections |-> {},
     ReflectionEntries |-> {}, GenericReflections |-> {},
     seq |-> [Skills |-> 0, FormFields |-> 0, Reflections |-> 0,
              ReflectionEntries |-> 0, GenericReflections |-> 0]]

(***************************************************************************)
(* The schema of the store: whether the file DB_NAME exists, the tables it *)
(* holds, and which of the two columns later versions added are there.  A  *)
(* table that does not exist is an empty set of rows; a row of a table     *)
(* that lacks a column carries the column's DEFAULT.                       *)
(***************************************************************************)
TableNames == {"Skills", "FormFields", "Reflections", "ReflectionEntries",
               "GenericReflections"}
\* The columns of the else branch, and the table each is added to.
ColumnTable == [deleted_timestamp |-> "FormFields", plan |-> "Skills"]
MigratedColumns == DOMAIN ColumnTable

NoFile == [file |-> FALSE, tables |-> {}, columns |-> {}]
UpToDate == [file |-> TRUE, tables |-> TableNames,
             columns |-> MigratedColumns]

\* db_exists = os.path.exists(DB_NAME)
db_exists(s) == s.file

\* sqlite3.connect(DB_NAME) creates the file when there is none.
connect(s) == [s EXCEPT !.file = TRUE]

\* The else branch: a column is added when PRAGMA table_info of its table
\* does not list it; on a table that does not exist table_info is empty,
\* ALTER TABLE raises and the except branch prints the error.
SchemaCheck(s) ==
    [s EXCEPT !.columns = @ \cup {c \in MigratedColumns :
                                     ColumnTable[c] \in s.tables}]

\* initialize_db that creates the tables whether or not the file exists,
\* replacing what is there.
initialize_db_run_Recreate(db, s) ==
    [db |-> initialize_db, schema |-> UpToDate]

\* initialize_db() run on the store (db, s): the store it leaves.
initialize_db_run(db, s) ==
    IF ~db_exists(s)
    THEN [db |-> initialize_db, schema |-> UpToDate]
    ELSE [db |-> db, schema |-> SchemaCheck(connect(s))]

\* The tables and the added columns the statements of a helper name.
Uses(op) ==
    CASE op \in {"add_skill", "update_skill_plan", "submit_new_skill"} ->
           [tables |-> {"Skills"}, columns |-> {"plan"}]
      [] op \in {"add_form_field", "delete_form_field"} ->
           [tables |-> {"FormFields"}, columns |-> {"deleted_timestamp"}]
      [] op = "save_reflection" ->
           [tables |-> {"Reflections", "ReflectionEntries"}, columns |-> {}]
      [] op = "submit_skill_reflection" ->
           [tables |-> {"FormFields", "Reflections", "ReflectionEntries"},
            columns |-> {"deleted_timestamp"}]
      [] op = "update_skill_reflection_entry" ->
           [tables |-> {"ReflectionEntries"}, columns |-> {}]
      [] op \in {"save_generic_reflection", "submit_generic",
                 "delete_generic_reflection", "update_generic_reflection"} ->
           [tables |-> {"GenericReflections"}, columns |-> {}]
      [] op = "delete_skill_reflection" ->
           [tables |-> {"Reflections"}, columns |-> {}]
      [] op = "get_dashboard_data" ->
           [tables |-> {"Reflections", "GenericReflections"},
            columns |-> {}]
      [] op = "Average Rating" ->
           [tables |-> {"ReflectionEntries", "FormFields", "Reflections"},
            columns |-> {"deleted_timestamp"}]

\* The statements of op find their tables and columns: none raises
\* sqlite3.OperationalError (no such table, no such column).
Prepares(op, s) ==
    /\ Uses(op).tables \subseteq s.tables
    /\ Uses(op).columns \subseteq s.columns

\* The rowid AUTOINCREMENT gives the next row of table t.
NextRowId(db, t) == db.seq[t] + 1

(***************************************************************************)
(* Single SQL statements.  Each yields [ok, db]: ok = FALSE is the         *)
(* sqlite3.IntegrityError the statement raises, with db as it was.         *)
(***************************************************************************)
\* INSERT INTO Skills without the UNIQUE constraint on name.
InsertSkill_NoUnique(db, name, description, plan) ==
    LET id == NextRowId(db, "Skills") IN
    [ok |-> TRUE,
     db |-> [db EXCEPT !.Skills = @ \cup {[skill_id |-> id, name |-> name,
                                          description |-> description,
                                          plan |-> plan]},
                       !.seq.Skills = id]]

\* INSERT INTO Skills (name, description, plan): name TEXT UNIQUE NOT NULL.
InsertSkill(db, name, description, plan) ==
    IF \E s \in db.Skills : s.name = name
    THEN [ok |-> FALSE, db |-> db]
    ELSE LET id == NextRowId(db, "Skills") IN
         [ok |-> TRUE,
          db |-> [db EXCEPT !.Skills = @ \cup {[skill_id |-> id, name |-> name,
                                               description |-> description,
                                               plan |-> plan]},
                            !.seq.Skills = id]]

\* INSERT INTO FormFields (skill_id, field_name, field_type):
\* CHECK(field_type IN ...), UNIQUE(skill_id, field_name) over all rows,
\* soft-deleted ones included; the foreign key to Skills is checked only on
\* a connection with foreign_keys on.
InsertFormField(db, skill_id, field_name, field_type) ==
    IF \/ field_type \notin FieldTypes
       \/ \E f \in db.FormFields :
              f.skill_id = skill_id /\ f.field_name = field_name
       \/ foreign_keys /\ ~(\E s \in db.Skills : s.skill_id = skill_id)
    THEN [ok |-> FALSE, db |-> db]
    ELSE LET id == NextRowId(db, "FormFields") IN
         [ok |-> TRUE,
          db |-> [db EXCEPT !.FormFields = @ \cup
                                {[field_id |-> id, skill_id |-> skill_id,
                                  field_name |-> field_name,
                                  field_type |-> field_type,
                                  deleted_timestamp |-> NULL]},
                            !.seq.FormFields = id]]

(***************************************************************************)
(* Skill Registry.                                                         *)
(***************************************************************************)
\* add_skill: the INSERT, committed; IntegrityError returns False.
add_skill(db, name, description, plan) ==
    InsertSkill(db, name, description, plan)

\* get_skill_details: the Row (name, description, plan) of the skill, or
\* None.
get_skill_details(db, skill_id) ==
    IF \E s \in db.Skills : s.skill_id = skill_id
    THEN LET s == CHOOSE s \in db.Skills : s.skill_id = skill_id
         IN [name |-> s.name, description |-> s.description, plan |-> s.plan]
    ELSE NULL

\* UPDATE Skills SET plan = ? with no WHERE clause.
update_skill_plan_NoWhere(db, skill_id, plan) ==
    [ok |-> TRUE,
     db |-> [db EXCEPT !.Skills = {[s EXCEPT !.plan = plan] : s \in @}]]

\* update_skill_plan: UPDATE Skills SET plan = ? WHERE skill_id = ?,
\* committed; True also when no row has the id.
update_skill_plan(db, skill_id, plan) ==
    [ok |-> TRUE,
     db |-> [db EXCEPT !.Skills =
                {IF s.skill_id = skill_id THEN [s EXCEPT !.plan = plan] ELSE s :
                    s \in @}]]

(***************************************************************************)
(* Form Schema Manager.                                                    *)
(***************************************************************************)
\* SELECT ... FROM FormFields WHERE skill_id = ? AND deleted_timestamp IS NULL
ActiveFields(db, skill_id) ==
    {f \in db.FormFields :
        f.skill_id = skill_id /\ f.deleted_timestamp = NULL}

add_form_field_NoLimit(db, skill_id, field_name, field_type) ==
    IF \E f \in ActiveFields(db, skill_id) : f.field_name = field_name
    THEN [ok |-> FALSE, db |-> db]
    ELSE InsertFormField(db, skill_id, field_name, field_type)

add_form_field_NoNameCheck(db, skill_id, field_name, field_type) ==
    IF Cardinality(ActiveFields(db, skill_id)) >= MaxActiveFields
    THEN [ok |-> FALSE, db |-> db]
    ELSE LET id == NextRowId(db, "FormFields") IN
         [ok |-> TRUE,
          db |-> [db EXCEPT !.FormFields = @ \cup
                                {[field_id |-> id, skill_id |-> skill_id,
                                  field_name |-> field_name,
                                  field_type |-> field_type,
                                  deleted_timestamp |-> NULL]},
                            !.seq.FormFields = id]]

add_form_field_InsertBeforeChecks(db, skill_id, field_name, field_type) ==
    LET ins == InsertFormField(db, skill_id, field_name, field_type)
    IN IF Cardinality(ActiveFields(db, skill_id)) >= MaxActiveFields
       THEN [ok |-> FALSE, db |-> ins.db]
       ELSE IF \E f \in ActiveFields(db, skill_id) : f.field_name = field_name
       THEN [ok |-> FALSE, db |-> ins.db]
       ELSE ins

\* add_form_field: the count check, the active-name check, the INSERT and
\* the commit; an exception of the INSERT returns False and close() drops
\* the uncommitted transaction.
add_form_field(db, skill_id, field_name, field_type) ==
    IF Cardinality(ActiveFields(db, skill_id)) >= MaxActiveFields
    THEN [ok |-> FALSE, db |-> db]
    ELSE IF \E f \in ActiveFields(db, skill_id) : f.field_name = field_name
    THEN [ok |-> FALSE, db |-> db]
    ELSE InsertFormField(db, skill_id, field_name, field_type)

\* get_form_fields: the rows of the skill, the soft-deleted ones only with
\* include_deleted, ORDER BY field_id.
SortedByFieldId(rows) ==
    [i \in 1..Cardinality(rows) |->
        CHOOSE f \in rows :
            Cardinality({g \in rows : g.field_id < f.field_id}) = i - 1]

get_form_fields(db, skill_id, include_deleted) ==
    SortedByFieldId({f \in db.FormFields :
        /\ f.skill_id = skill_id
        /\ (include_deleted \/ f.deleted_timestamp = NULL)})

\* A delete that does not wait for the answer.
delete_form_field_NoConfirm(db, field_id, ts, answer) ==
    [ok |-> TRUE,
     db |-> [db EXCEPT !.FormFields =
                {IF f.field_id = field_id
                 THEN [f EXCEPT !.deleted_timestamp = ts] ELSE f : f \in @}]]

\* A delete that retires every field of the skill of the field.
delete_form_field_WholeSkill(db, field_id, ts, answer) ==
    IF ~answer
    THEN [ok |-> FALSE, db |-> db]
    ELSE [ok |-> TRUE,
          db |-> [db EXCEPT !.FormFields =
                     {IF \E g \in db.FormFields :
                            g.field_id = field_id /\ g.skill_id = f.skill_id
                      THEN [f EXCEPT !.deleted_timestamp = ts]
                      ELSE f : f \in @}]]

\* A delete that clears the marker of a field already deleted.
delete_form_field_Toggle(db, field_id, ts, answer) ==
    IF ~answer
    THEN [ok |-> FALSE, db |-> db]
    ELSE [ok |-> TRUE,
          db |-> [db EXCEPT !.FormFields =
                     {IF f.field_id = field_id
                      THEN [f EXCEPT !.deleted_timestamp =
                                IF @ = NULL THEN ts ELSE NULL]
                      ELSE f : f \in @}]]

delete_form_field_HardDelete(db, field_id, ts, answer) ==
    IF ~answer
    THEN [ok |-> FALSE, db |-> db]
    ELSE [ok |-> TRUE,
          db |-> [db EXCEPT !.FormFields = {f \in @ : f.field_id # field_id}]]

\* delete_form_field: the askyesno confirmation, then UPDATE FormFields SET
\* deleted_timestamp = now WHERE field_id = ?; an unknown id updates no row.
delete_form_field(db, field_id, ts, answer) ==
    IF ~answer
    THEN [ok |-> FALSE, db |-> db]
    ELSE [ok |-> TRUE,
          db |-> [db EXCEPT !.FormFields =
                     {IF f.field_id = field_id
                      THEN [f EXCEPT !.deleted_timestamp = ts] ELSE f : f \in @}]]

(***************************************************************************)
(* Reflection Store: statements.                                           *)
(***************************************************************************)
\* INSERT INTO Reflections (skill_id, timestamp)
InsertReflection(db, skill_id, ts) ==
    IF foreign_keys /\ ~(\E s \in db.Skills : s.skill_id = skill_id)
    THEN [ok |-> FALSE, db |-> db]
    ELSE LET id == NextRowId(db, "Reflections") IN
         [ok |-> TRUE,
          db |-> [db EXCEPT !.Reflections = @ \cup
                                {[reflection_id |-> id, skill_id |-> skill_id,
                                  timestamp |-> ts]},
                            !.seq.Reflections = id]]

\* INSERT INTO ReflectionEntries (reflection_id, field_id, value):
\* field_id INTEGER NOT NULL, value TEXT.
InsertReflectionEntry(db, reflection_id, field_id, value) ==
    IF \/ field_id = NULL
       \/ foreign_keys /\ ~(\E f \in db.FormFields : f.field_id = field_id)
    THEN [ok |-> FALSE, db |-> db]
    ELSE LET id == NextRowId(db, "ReflectionEntries") IN
         [ok |-> TRUE,
          db |-> [db EXCEPT !.ReflectionEntries = @ \cup
                                {[entry_id |-> id,
                                  reflection_id |-> reflection_id,
                                  field_id |-> field_id, value |-> value]},
                            !.seq.ReflectionEntries = id]]

\* cursor.executemany over entry_data from its i-th tuple on.  fault is the
\* number of the statement of save_reflection at which the store raises
\* (0: never; 1: the Reflections INSERT; 1 + i: the i-th entry INSERT).
RECURSIVE executemany(_, _, _, _, _)
executemany(db, reflection_id, entry_data, i, fault) ==
    IF i > Len(entry_data)
    THEN [ok |-> TRUE, db |-> db]
    ELSE LET r == IF fault = 1 + i
                  THEN [ok |-> FALSE, db |-> db]
                  ELSE InsertReflectionEntry(db, reflection_id,
                                             entry_data[i][1], entry_data[i][2])
         IN IF r.ok
            THEN executemany(r.db, reflection_id, entry_data, i + 1, fault)
            ELSE r

\* The try block of save_reflection up to the commit: [ok, db, lastrowid],
\* db being what the open transaction holds when the block ends or raises.
save_reflection_try(db, skill_id, entries, ts, fault) ==
    LET r == IF fault = 1
             THEN [ok |-> FALSE, db |-> db]
             ELSE InsertReflection(db, skill_id, ts)
        reflection_id == r.db.seq.Reflections
    IN IF ~r.ok
       THEN [ok |-> FALSE, db |-> r.db, lastrowid |-> NULL]
       ELSE LET e == executemany(r.db, reflection_id, entries, 1, fault)
            IN [ok |-> e.ok, db |-> e.db, lastrowid |-> reflection_id]

save_reflection_NoRollback(db, skill_id, entries, ts, fault) ==
    save_reflection_try(db, skill_id, entries, ts, fault)

save_reflection_DropsLastEntry(db, skill_id, entries, ts, fault) ==
    LET t == save_reflection_try(db, skill_id,
                                 SubSeq(entries, 1, Len(entries) - 1), ts, fault)
    IN IF t.ok THEN t ELSE [t EXCEPT !.db = db]

\* save_reflection(skill_id, entries): entries is the dict in iteration
\* order, a sequence of <<field_id, value>> with distinct field ids.  commit
\* on success; on an exception rollback, so the database is as at connect.
save_reflection(db, skill_id, entries, ts, fault) ==
    LET t == save_reflection_try(db, skill_id, entries, ts, fault)
    IN IF t.ok THEN t ELSE [t EXCEPT !.db = db]

\* save_generic_reflection: INSERT INTO GenericReflections (timestamp,
\* content); content TEXT NOT NULL admits the empty string.
save_generic_reflection(db, content, ts) ==
    LET id == NextRowId(db, "GenericReflections") IN
    [ok |-> TRUE,
     db |-> [db EXCEPT !.GenericReflections = @ \cup
                           {[generic_reflection_id |-> id, timestamp |-> ts,
                             content |-> content]},
                       !.seq.GenericReflections = id]]

\* delete_generic_reflection: DELETE ... WHERE generic_reflection_id = ?
delete_generic_reflection(db, generic_reflection_id) ==
    [ok |-> TRUE,
     db |-> [db EXCEPT !.GenericReflections =
                {g \in @ : g.generic_reflection_id # generic_reflection_id}]]

\* delete_skill_reflection: DELETE FROM Reflections WHERE reflection_id = ?
\* (the explicit DELETE FROM ReflectionEntries is commented out); ON DELETE
\* CASCADE removes the entries only on a connection with foreign_keys on.
delete_skill_reflection(db, reflection_id) ==
    [ok |-> TRUE,
     db |-> [db EXCEPT !.Reflections =
                {r \in @ : r.reflection_id # reflection_id},
                       !.ReflectionEntries =
                IF foreign_keys
                THEN {e \in @ : e.reflection_id # reflection_id}
                ELSE @]]

(***************************************************************************)
(* get_past_reflections.  ORDER BY timestamp DESC leaves the order of rows *)
(* with equal timestamps to SQLite, so a query is the set of the row       *)
(* sequences it may return; the result of the function is then computed    *)
(* from one such sequence per query.                                       *)
(***************************************************************************)
\* SELECT ... ORDER BY timestamp DESC LIMIT ?
OrderByTimestampDescLimit(rows, limit) ==
    LET n == Cardinality(rows)
        sorted == {q \in [1..n -> rows] :
                      /\ \A i, j \in 1..n : i # j => q[i] # q[j]
                      /\ \A i, j \in 1..n : i < j => q[i].timestamp >= q[j].timestamp}
    IN {SubSeq(q, 1, Min(limit, n)) : q \in sorted}

\* The entries query of one reflection: ReflectionEntries JOIN FormFields ON
\* field_id, WHERE reflection_id = ?, ORDER BY ff.field_id.
EntriesOf(db, reflection_id) ==
    LET joined == {[entry_id |-> e.entry_id, field_id |-> e.field_id,
                    field_name |-> f.field_name, field_type |-> f.field_type,
                    value |-> e.value] :
                   <<e, f>> \in {p \in db.ReflectionEntries \X db.FormFields :
                                   /\ p[1].reflection_id = reflection_id
                                   /\ p[1].field_id = p[2].field_id}}
        Before(a, b) == \/ a.field_id < b.field_id
                        \/ a.field_id = b.field_id /\ a.entry_id < b.entry_id
    IN [i \in 1..Cardinality(joined) |->
           CHOOSE a \in joined :
               Cardinality({b \in joined : Before(b, a)}) = i - 1]

\* The merged list left in the order of concatenation.
SortByTimestampReverse_NoSort(list) == list

\* reflections_list.sort(key=timestamp, reverse=True): Python's sort is
\* stable, also with reverse=True.
SortByTimestampReverse(list) ==
    LET n == Len(list)
        rank(k) == Cardinality({j \in 1..n :
                       \/ list[j].timestamp > list[k].timestamp
                       \/ list[j].timestamp = list[k].timestamp /\ j < k})
    IN [i \in 1..n |-> list[CHOOSE k \in 1..n : rank(k) = i - 1]]

GenericItem(g) ==
    [type |-> "generic", id |-> g.generic_reflection_id,
     timestamp |-> g.timestamp, content |-> g.content]

SkillItem(db, r) ==
    [type |-> "skill", id |-> r.id, skill_id |-> r.skill_id,
     timestamp |-> r.timestamp, skill_name |-> r.skill_name,
     entries |-> EntriesOf(db, r.id)]

\* The skill query without its WHERE r.skill_id = ? clause.
SkillReflectionRows_NoFilter(db, skill_id) ==
    {[id |-> r.reflection_id, timestamp |-> r.timestamp,
      skill_name |-> s.name, skill_id |-> r.skill_id] :
     <<r, s>> \in {p \in db.Reflections \X db.Skills :
                     p[1].skill_id = p[2].skill_id}}

\* Reflections r JOIN Skills s ON r.skill_id = s.skill_id [WHERE r.skill_id = ?]
SkillReflectionRows(db, skill_id) ==
    {[id |-> r.reflection_id, timestamp |-> r.timestamp,
      skill_name |-> s.name, skill_id |-> r.skill_id] :
     <<r, s>> \in {p \in db.Reflections \X db.Skills :
                     /\ p[1].skill_id = p[2].skill_id
                     /\ (skill_id = NULL \/ p[1].skill_id = skill_id)}}

\* get_past_reflections(skill_id, limit), skill_id = NULL for None: the set
\* of the lists it may return.
get_past_reflections(db, skill_id, limit) ==
    LET generic == IF skill_id = NULL
                   THEN OrderByTimestampDescLimit(db.GenericReflections, limit)
                   ELSE {<<>>}
        skill == OrderByTimestampDescLimit(SkillReflectionRows(db, skill_id), limit)
        list(g, q) == [i \in 1..Len(g) |-> GenericItem(g[i])] \o
                      [i \in 1..Len(q) |-> SkillItem(db, q[i])]
    IN {IF skill_id = NULL
        THEN LET sorted == SortByTimestampReverse(list(g, q))
             IN SubSeq(sorted, 1, Min(limit, Len(sorted)))
        ELSE list(g, q) : g \in generic, q \in skill}

(***************************************************************************)
(* Text.                                                                   *)
(***************************************************************************)
IsSpace(c) == c \in {" ", "\n", "\t"}
Digits == {"0", "1", "2", "3", "4", "5", "6", "7", "8", "9"}

\* str.strip()
RECURSIVE lstrip(_)
lstrip(s) == IF s # <<>> /\ IsSpace(Head(s)) THEN lstrip(Tail(s)) ELSE s

RECURSIVE rstrip(_)
rstrip(s) == IF s # <<>> /\ IsSpace(s[Len(s)])
             THEN rstrip(SubSeq(s, 1, Len(s) - 1)) ELSE s

strip(s) == rstrip(lstrip(s))

\* float(value) does not raise ValueError: surrounding whitespace is
\* ignored, then an optional sign and digits with at most one point and at
\* least one digit (exponents, inf, nan and underscores need characters
\* outside the alphabets used here).
float_ok(value) ==
    LET t == strip(value)
        u == IF t # <<>> /\ Head(t) \in {"+", "-"} THEN Tail(t) ELSE t
    IN /\ \A i \in 1..Len(u) : u[i] \in Digits \cup {"."}
       /\ \E i \in 1..Len(u) : u[i] \in Digits
       /\ Cardinality({i \in 1..Len(u) : u[i] = "."}) <= 1

\* str(i) for the values of the rating Combobox, range(1, 6).
DigitChars == <<"0", "1", "2", "3", "4", "5", "6", "7", "8", "9">>
str(i) == <<DigitChars[i + 1]>>

\* The texts of at most n characters over an alphabet.
Texts(chars, n) == UNION {[1..k -> chars] : k \in 0..n}

(***************************************************************************)
(* get_dashboard_data.  A timestamp is an instant; a day has TicksPerDay   *)
(* instants and day 0 is a Monday.  skill_id is NULL for None, All for     *)
(* the string "All", or the id of a skill.                                 *)
(***************************************************************************)
\* ts.date(), datetime.now().date()
date(ts) == ts \div TicksPerDay
\* The datetime at which a date starts: what SQLite compares a timestamp
\* with in `timestamp >= ?` when the parameter is a date.
midnight(d) == d * TicksPerDay
\* date.weekday(): Monday is 0.
weekday(d) == d % 7

\* start_date with the weekday of today left out.
start_date_Unaligned(today) == today - (num_weeks - 1) * 7

\* today - timedelta(days=today.weekday() + (num_weeks - 1) * 7)
start_date(today) == today - (weekday(today) + (num_weeks - 1) * 7)

\* week_start_dates[i], i in range(num_weeks), numbered from 1 here.
week_start_dates(today) ==
    [i \in 1..num_weeks |-> start_date(today) + 7 * (i - 1)]

\* reflections_timestamps with the generic query run for every filter.
reflections_timestamps_AlwaysGeneric(db, skill_id, today) ==
    {<<"skill", r.reflection_id, r.timestamp>> :
        r \in {x \in db.Reflections :
                  /\ x.timestamp >= midnight(start_date(today))
                  /\ (skill_id \in {NULL, All} \/ x.skill_id = skill_id)}}
    \cup {<<"generic", g.generic_reflection_id, g.timestamp>> :
            g \in {x \in db.GenericReflections :
                      x.timestamp >= midnight(start_date(today))}}

\* reflections_timestamps: the rows the two queries select, each tagged with
\* its table and rowid (the list holds one timestamp per row).
reflections_timestamps(db, skill_id, today) ==
    {<<"skill", r.reflection_id, r.timestamp>> :
        r \in {x \in db.Reflections :
                  /\ x.timestamp >= midnight(start_date(today))
                  /\ (skill_id \in {NULL, All} \/ x.skill_id = skill_id)}}
    \cup IF skill_id \in {NULL, All}
         THEN {<<"generic", g.generic_reflection_id, g.timestamp>> :
                 g \in {x \in db.GenericReflections :
                           x.timestamp >= midnight(start_date(today))}}
         ELSE {}

\* The loop over range(num_weeks) with its break: the first week the date
\* of ts falls in, 0 when it falls in none.
BucketOf(ts, today) ==
    LET ws == week_start_dates(today)
        hits == {i \in 1..num_weeks :
                    ws[i] <= date(ts) /\ date(ts) < ws[i] + 7}
    IN IF hits = {} THEN 0 ELSE CHOOSE i \in hits : \A j \in hits : i <= j

\* weekly_counts: the counts in the order of the week labels.
weekly_counts(db, skill_id, today) ==
    [i \in 1..num_weeks |->
        Cardinality({x \in reflections_timestamps(db, skill_id, today) :
                        BucketOf(x[3], today) = i})]

\* overall_count without the GenericReflections count.
overall_count_SkillOnly(db) == Cardinality(db.Reflections)

\* SELECT COUNT(*) FROM Reflections + SELECT COUNT(*) FROM GenericReflections
overall_count(db) ==
    Cardinality(db.Reflections) + Cardinality(db.GenericReflections)

\* CAST(value AS REAL) of a text: the number its longest numeric prefix
\* reads as, 0 when there is none.  Digits only: a sign, a point or an
\* exponent needs characters the entry values used here do not have.
RECURSIVE CastReal(_)
CastReal(value) ==
    LET n == Len(value)
        isnum(k) == \A i \in 1..k : value[i] \in Digits
        k == CHOOSE k \in 0..n : isnum(k) /\ \A j \in k + 1..n : ~isnum(j)
        digit(c) == CHOOSE d \in 0..9 : DigitChars[d + 1] = c
    IN IF k = 0 THEN 0
       ELSE 10 * CastReal(SubSeq(value, 1, k - 1)) + digit(value[k])

RECURSIVE IntStr(_)
IntStr(n) == IF n < 10 THEN str(n) ELSE IntStr(n \div 10) \o str(n % 10)

RECURSIVE SumOf(_, _)
SumOf(f, S) ==
    IF S = {} THEN 0
    ELSE LET x == CHOOSE x \in S : TRUE IN f[x] + SumOf(f, S \ {x})

\* f"{sum / count:.2f}" for sum >= 0: two decimals, a tie rounded to even.
Format2f(sum, count) ==
    LET q == (sum * 100) \div count
        r == (sum * 100) % count
        h == IF 2 * r > count \/ (2 * r = count /\ q % 2 = 1)
             THEN q + 1 ELSE q
    IN IntStr(h \div 100) \o <<".">> \o str((h \div 10) % 10) \o str(h % 10)

\* The rows of agg_query: ReflectionEntries JOIN FormFields JOIN Reflections
\* WHERE field_name = 'Rating' AND field_type = 'rating1-5' AND
\* deleted_timestamp IS NULL [AND r.skill_id = ?].
RatingRows(db, skill_id) ==
    {e \in db.ReflectionEntries :
        /\ \E ff \in db.FormFields :
              /\ ff.field_id = e.field_id
              /\ ff.field_name = "Rating"
              /\ ff.field_type = "rating1-5"
              /\ ff.deleted_timestamp = NULL
        /\ \E r \in db.Reflections :
              /\ r.reflection_id = e.reflection_id
              /\ (skill_id \in {NULL, All} \/ r.skill_id = skill_id)}

\* skill_aggregates: the formatted average, <<>> for the empty dict.
skill_aggregates(db, skill_id) ==
    LET rows == RatingRows(db, skill_id)
        val == [e \in rows |-> CastReal(e.value)]
    IN IF rows = {} THEN <<>>
       ELSE Format2f(SumOf(val, rows), Cardinality(rows))

get_dashboard_data(db, skill_id, ts) ==
    [overall_count |-> overall_count(db),
     weekly_counts |-> weekly_counts(db, skill_id, date(ts)),
     skill_aggregates |-> skill_aggregates(db, skill_id)]

\* UPDATE ReflectionEntries SET value = ? without the WHERE clause.
update_skill_reflection_entry_NoWhere(db, entry_id, value) ==
    [ok |-> TRUE,
     db |-> [db EXCEPT !.ReflectionEntries =
                {[e EXCEPT !.value = value] : e \in @}]]

\* update_skill_reflection_entry: UPDATE ReflectionEntries SET value = ?
\* WHERE entry_id = ?; an unknown id updates no row and True is returned.
update_skill_reflection_entry(db, entry_id, value) ==
    [ok |-> TRUE,
     db |-> [db EXCEPT !.ReflectionEntries =
                {IF e.entry_id = entry_id
                 THEN [e EXCEPT !.value = value] ELSE e : e \in @}]]

\* update_generic_reflection: UPDATE GenericReflections SET content = ?
\* WHERE generic_reflection_id = ?; an unknown id updates no row.
update_generic_reflection(db, generic_reflection_id, content) ==
    [ok |-> TRUE,
     db |-> [db EXCEPT !.GenericReflections =
                {IF g.generic_reflection_id = generic_reflection_id
                 THEN [g EXCEPT !.content = content] ELSE g : g \in @}]]

(***************************************************************************)
(* Form handlers of SkillJournalApp.                                       *)
(***************************************************************************)
\* tk.Text.get("1.0", tk.END): the text typed, with Tk's final newline.
TextGet(typed) == typed \o <<"\n">>

submit_generic_NoStrip(db, typed, ts) ==
    LET content == TextGet(typed)
    IN IF content # <<>>
       THEN save_generic_reflection(db, content, ts)
       ELSE [ok |-> FALSE, db |-> db]

\* show_fill_generic_form.submit_generic
submit_generic(db, typed, ts) ==
    LET content == strip(TextGet(typed))
    IN IF content # <<>>
       THEN save_generic_reflection(db, content, ts)
       ELSE [ok |-> FALSE, db |-> db]

submit_new_skill_NoCheck(db, typed_name, typed_desc) ==
    add_skill(db, strip(typed_name), strip(typed_desc), "")

\* show_manage_skills.submit_new_skill: ttk.Entry.get() is the text typed.
submit_new_skill(db, typed_name, typed_desc) ==
    LET name == strip(typed_name)
        desc == strip(typed_desc)
    IN IF name # <<>>
       THEN add_skill(db, name, desc, "")
       ELSE [ok |-> FALSE, db |-> db]

\* A form that also shows the retired fields.
fields_to_display_IncludeDeleted(db, skill_id) ==
    LET form_fields == get_form_fields(db, skill_id, TRUE)
    IN SubSeq(form_fields, 1, Min(Len(form_fields), MaxActiveFields))

\* show_fill_skill_form: the active fields, at most five of them displayed.
fields_to_display(db, skill_id) ==
    LET form_fields == get_form_fields(db, skill_id, FALSE)
    IN SubSeq(form_fields, 1, Min(Len(form_fields), MaxActiveFields))

\* The value submit_skill_reflection reads from the widget of a field: a
\* Text widget stripped, a StringVar as it is.
WidgetValue(field, typed) ==
    IF field.field_type = "text" THEN strip(TextGet(typed)) ELSE typed

FieldValid_NoFloatCheck(field, value) ==
    ~(value = <<>> /\ field.field_type # "text")

\* The checks of the loop of submit_skill_reflection on one field.
FieldValid(field, value) ==
    /\ ~(value = <<>> /\ field.field_type # "text")
    /\ ~(field.field_type = "number" /\ value # <<>> /\ ~float_ok(value))

\* show_fill_skill_form with submit_skill_reflection: typed maps the
\* field_id of every displayed field to what its widget holds.  Nothing is
\* shown, hence nothing saved, for a skill without active fields.
submit_skill_reflection(db, skill_id, typed, ts) ==
    LET shown == fields_to_display(db, skill_id)
        value(i) == WidgetValue(shown[i], typed[shown[i].field_id])
        valid == \A i \in 1..Len(shown) : FieldValid(shown[i], value(i))
        collected_entries ==
            [i \in 1..Len(shown) |-> <<shown[i].field_id, value(i)>>]
    IN IF Len(shown) > 0 /\ valid
       THEN save_reflection(db, skill_id, collected_entries, ts, 0)
       ELSE [ok |-> FALSE, db |-> db, lastrowid |-> NULL]

(***************************************************************************)
(* The state machine.  last is the latest call and what it returned; now   *)
(* is the reading of datetime.now().                                       *)
(***************************************************************************)
Init ==
    /\ Skills = initialize_db.Skills
    /\ FormFields = initialize_db.FormFields
    /\ Reflections = initialize_db.Reflections
    /\ ReflectionEntries = initialize_db.ReflectionEntries
    /\ GenericReflections = initialize_db.GenericReflections
    /\ sqlite_sequence = initialize_db.seq
    /\ now = 1
    /\ last = [op |-> "initialize_db", ok |-> TRUE, args |-> <<>>]
    /\ schema = initialize_db_run(initialize_db, NoFile).schema
    /\ connections = {}

\* A helper connects, runs and closes (finally: if conn: conn.close()), so
\* the open connections are those open before.  A statement that names a
\* table or a column the store lacks raises; the helper's except branch
\* reports the failure and nothing is committed.
Return(op, args, r) ==
    /\ IF Prepares(op, schema)
       THEN /\ Store(r.db)
            /\ last' = [op |-> op, ok |-> r.ok, args |-> args]
       ELSE /\ UNCHANGED tables
            /\ last' = [op |-> op, ok |-> FALSE, args |-> args]
    /\ schema' = connect(schema)
    /\ UNCHANGED <<now, connections>>

\* initialize_db(), the first call of main() and callable again.
InitializeDb ==
    LET r == initialize_db_run(DB, schema)
    IN /\ Store(r.db)
       /\ schema' = r.schema
       /\ last' = [op |-> "initialize_db", ok |-> TRUE, args |-> <<>>]
       /\ UNCHANGED <<now, connections>>

\* The CREATE TABLE statements of initialize_db, in order.
CreateOrder == <<"Skills", "FormFields", "Reflections", "ReflectionEntries",
                 "GenericReflections">>

\* initialize_db() where the CREATE TABLE numbered fault raises (the disk is
\* full, the file cannot be written): the statements are in no try block,
\* the exception leaves the function and conn.close() of line 123 is not
\* reached.  The tables created before stay: sqlite3 commits each DDL
\* statement at once.
InitializeDbRaises(fault) ==
    LET created == {CreateOrder[i] : i \in 1..fault - 1}
    IN /\ ~db_exists(schema)
       /\ schema' = [file |-> TRUE, tables |-> created,
                     columns |-> {c \in MigratedColumns :
                                    ColumnTable[c] \in created}]
       /\ connections' = connections \cup
             {[caller |-> 0, op |-> "initialize_db", pc |-> "raised",
               args |-> [fault |-> fault]]}
       /\ last' = [op |-> "initialize_db", ok |-> FALSE,
                   args |-> [fault |-> fault]]
       /\ UNCHANGED <<tables, now>>

\* The interpreter frees a connection object nothing refers to any more,
\* which closes it: when, if ever, is up to the interpreter and to what the
\* caller does with the exception.
Finalize ==
    \E k \in connections :
        /\ k.pc = "raised"
        /\ connections' = connections \ {k}
        /\ UNCHANGED <<tables, now, last, schema>>

\* Time passes between two calls.
Tick ==
    /\ now < MaxTime
    /\ now' = now + 1
    /\ UNCHANGED <<tables, last, schema, connections>>

AddSkill(name) ==
    Return("add_skill", [name |-> name], add_skill(DB, name, "", ""))

\* The wall clock is set: datetime.now() reads local time, which also
\* moves backwards.
SetClock(t) ==
    /\ t # now
    /\ now' = t
    /\ UNCHANGED <<tables, last, schema, connections>>

GetDashboardData(skill_id) ==
    LET data == get_dashboard_data(DB, skill_id, now)
    IN Return("get_dashboard_data",
              [skill_id |-> skill_id,
               data |-> IF ~Prepares("get_dashboard_data", schema)
                        THEN [overall_count |-> 0, weekly_counts |-> <<>>,
                              skill_aggregates |-> <<>>]
                        ELSE IF ~Prepares("Average Rating", schema)
                        THEN [data EXCEPT !.skill_aggregates = <<>>]
                        ELSE data],
              [ok |-> TRUE, db |-> DB])

\* add_skill as the Manage Skills form calls it, with a description.
AddSkillDescribed(name, description) ==
    Return("add_skill", [name |-> name, description |-> description],
           add_skill(DB, name, description, ""))

SubmitNewSkill(typed_name, typed_desc) ==
    Return("submit_new_skill",
           [typed_name |-> typed_name, typed_desc |-> typed_desc],
           submit_new_skill(DB, typed_name, typed_desc))

UpdateSkillPlan(skill_id, plan) ==
    Return("update_skill_plan", [skill_id |-> skill_id, plan |-> plan],
           update_skill_plan(DB, skill_id, plan))

AddFormField(skill_id, field_name, field_type) ==
    Return("add_form_field",
           [skill_id |-> skill_id, field_name |-> field_name,
            field_type |-> field_type],
           add_form_field(DB, skill_id, field_name, field_type))

DeleteFormField(field_id, answer) ==
    Return("delete_form_field", [field_id |-> field_id, answer |-> answer],
           delete_form_field(DB, field_id, now, answer))

SaveReflection(skill_id, entries, fault) ==
    LET r == save_reflection(DB, skill_id, entries, now, fault)
    IN Return("save_reflection",
              [skill_id |-> skill_id, entries |-> entries, fault |-> fault,
               lastrowid |-> r.lastrowid], r)

SubmitSkillReflection(skill_id, typed) ==
    LET r == submit_skill_reflection(DB, skill_id, typed, now)
    IN Return("submit_skill_reflection",
              [skill_id |-> skill_id, typed |-> typed,
               lastrowid |-> r.lastrowid], r)

SaveGenericReflection(content) ==
    Return("save_generic_reflection", [content |-> content],
           save_generic_reflection(DB, content, now))

SubmitGeneric(typed) ==
    Return("submit_generic", [typed |-> typed],
           submit_generic(DB, typed, now))

UpdateSkillReflectionEntry(entry_id, value) ==
    Return("update_skill_reflection_entry",
           [entry_id |-> entry_id, value |-> value],
           update_skill_reflection_entry(DB, entry_id, value))

UpdateGenericReflection(generic_reflection_id, content) ==
    Return("update_generic_reflection",
           [generic_reflection_id |-> generic_reflection_id,
            content |-> content],
           update_generic_reflection(DB, generic_reflection_id, content))

DeleteGenericReflection(generic_reflection_id) ==
    Return("delete_generic_reflection",
           [generic_reflection_id |-> generic_reflection_id],
           delete_generic_reflection(DB, generic_reflection_id))

DeleteSkillReflection(reflection_id) ==
    Return("delete_skill_reflection", [reflection_id |-> reflection_id],
           delete_skill_reflection(DB, reflection_id))

(***************************************************************************)
(* add_form_field statement by statement, for callers that run it at the   *)
(* same time on one database file (two windows of the program).  Each has  *)
(* its own connection; pc names the statement it executes next.  The two   *)
(* SELECTs run outside any transaction: sqlite3 opens one only before the  *)
(* INSERT, and a second writer waits for the commit of the first.          *)
(***************************************************************************)
Callers == {1, 2}

ConnectionOf(caller) == {k \in connections : k.caller = caller}

\* The connection goes on to the statement pc.
Advance(k, pc) ==
    connections' = (connections \ {k}) \cup {[k EXCEPT !.pc = pc]}

\* return ok, through finally: if conn: conn.close().
ReturnClosing(k, ok) ==
    /\ connections' = connections \ {k}
    /\ last' = [op |-> k.op, ok |-> ok, args |-> k.args]

\* conn = sqlite3.connect(DB_NAME); cursor = conn.cursor()
AddFormFieldConnect(caller, skill_id, field_name, field_type) ==
    /\ ConnectionOf(caller) = {}
    /\ connections' = connections \cup
          {[caller |-> caller, op |-> "add_form_field", pc |-> "count",
            args |-> [skill_id |-> skill_id, field_name |-> field_name,
                      field_type |-> field_type]]}
    /\ schema' = connect(schema)
    /\ UNCHANGED <<tables, now, last>>

\* SELECT COUNT(*) ... AND deleted_timestamp IS NULL; if count >= 5
AddFormFieldCount(caller) ==
    \E k \in ConnectionOf(caller) :
        /\ k.pc = "count"
        /\ IF Cardinality(ActiveFields(DB, k.args.skill_id))
                 >= MaxActiveFields
           THEN ReturnClosing(k, FALSE)
           ELSE Advance(k, "name") /\ UNCHANGED last
        /\ UNCHANGED <<tables, now, schema>>

\* SELECT 1 ... AND field_name = ? AND deleted_timestamp IS NULL
AddFormFieldName(caller) ==
    \E k \in ConnectionOf(caller) :
        /\ k.pc = "name"
        /\ IF \E f \in ActiveFields(DB, k.args.skill_id) :
                 f.field_name = k.args.field_name
           THEN ReturnClosing(k, FALSE)
           ELSE Advance(k, "insert") /\ UNCHANGED last
        /\ UNCHANGED <<tables, now, schema>>

\* INSERT INTO FormFields ...; conn.commit(); return True, or the except
\* branch on IntegrityError.
AddFormFieldInsert(caller) ==
    \E k \in ConnectionOf(caller) :
        /\ k.pc = "insert"
        /\ LET r == InsertFormField(DB, k.args.skill_id, k.args.field_name,
                                    k.args.field_type)
           IN Store(r.db) /\ ReturnClosing(k, r.ok)
        /\ UNCHANGED <<now, schema>>

(***************************************************************************)
(* Inputs.  AUTOINCREMENT counters are unbounded: a specification lets a   *)
(* call through when the rowids it leaves are within the bound.            *)
(***************************************************************************)
Within(table, max) == sqlite_sequence'[table] <= max

FieldRowsOf(skill_id) == {f \in FormFields : f.skill_id = skill_id}

\* The entries dicts of at most n items over the keys and values given:
\* sequences of <<field_id, value>> with distinct field ids.
EntryDicts(keys, values, n) ==
    {d \in UNION {[1..k -> keys \X values] : k \in 0..n} :
        \A i, j \in 1..Len(d) : i # j => d[i][1] # d[j][1]}

\* The dicts a form builds: the keys in field order.
FormDicts(keys, values) ==
    {d \in EntryDicts(keys, values, Cardinality(keys)) :
        \A i, j \in 1..Len(d) : i < j => d[i][1] < d[j][1]}

(***************************************************************************)
(* SpecFields: the form schema of a skill up to the cap and beyond.  Field *)
(* names are interchangeable here, so a caller uses the names of the pool  *)
(* in order: one of those the skill already has, or the next one.          *)
(***************************************************************************)
CapFieldNames(skill_id) ==
    {FieldNamePool[i] : i \in 1..Cardinality(FieldRowsOf(skill_id)) + 1}

NextFields ==
    \/ AddSkill("Guitar Practice")
    \/ \E field_name \in CapFieldNames(1) :
          /\ AddFormField(1, field_name, "text")
          /\ Within("FormFields", MaxCapFieldRows)
    \* A type the CHECK of FormFields refuses.
    \/ AddFormField(1, FieldNamePool[1], "date")
    \/ \E field_id \in 1..sqlite_sequence.FormFields :
          DeleteFormField(field_id, TRUE)
    \/ \E entries \in EntryDicts({1}, {<<"4">>}, 1) :
          /\ SaveReflection(1, entries, 0)
          /\ Within("Reflections", MaxCapReflections)
    \/ \E reflection_id \in 1..sqlite_sequence.Reflections :
          DeleteSkillReflection(reflection_id)

SpecFields == Init /\ [][NextFields]_vars

(***************************************************************************)
(* Spec: a skill, its fields, skill reflections.  The helpers are called   *)
(* with the ids of rows that exist and of rows that do not (yet).          *)
(***************************************************************************)
FieldNames == {"Rating", "Notes"}
EntryValues == {<<"4">>, <<"x">>}
ListLimits == {1, DefaultLimit}

Next ==
    \/ AddSkill("Guitar Practice")
    \/ \E field_name \in FieldNames :
          AddFormField(1, field_name, "rating1-5")
    \/ \E field_id \in {1, 2}, answer \in BOOLEAN :
          DeleteFormField(field_id, answer)
    \/ \E entries \in FormDicts({1, 2}, EntryValues) :
          /\ SaveReflection(1, entries, 0)
          /\ Within("Reflections", MaxReflections)
    \/ \E fault \in 1..3 :
          /\ SaveReflection(1, <<<<1, <<"4">>>>, <<2, <<"x">>>>>>, fault)
          /\ Within("Reflections", MaxReflections)
    \/ \E reflection_id \in 1..MaxReflections :
          DeleteSkillReflection(reflection_id)

Spec == Init /\ [][Next]_vars

(***************************************************************************)
(* SpecGeneric: generic reflections, saved by the helper directly and      *)
(* through the form.                                                       *)
(***************************************************************************)
ContentChars == {" ", "a"}

NextGeneric ==
    \/ \E content \in Texts(ContentChars, MaxTextLen) :
          /\ SaveGenericReflection(content)
          /\ Within("GenericReflections", MaxGeneric)
    \/ \E typed \in Texts(ContentChars, MaxTextLen) :
          /\ SubmitGeneric(typed)
          /\ Within("GenericReflections", MaxGeneric)
    \/ \E generic_reflection_id \in 1..MaxGeneric :
          DeleteGenericReflection(generic_reflection_id)
    \/ Tick

SpecGeneric == Init /\ [][NextGeneric]_vars

(***************************************************************************)
(* SpecForms: skill reflections saved by the helper directly and through   *)
(* the form of show_fill_skill_form.  A number Entry and a Text take any   *)
(* text; the rating Combobox is read-only over str(1)..str(5) and starts   *)
(* empty.                                                                  *)
(***************************************************************************)
TypedTexts == {<<>>, <<" ">>, <<"x">>, <<"2", ".", "5">>}
RatingChoices == {<<>>} \cup {str(i) : i \in 1..5}
\* The choices a user makes in this specification.
RatingPicks == {<<>>, str(1), str(5)}

WidgetTexts(field) ==
    IF field.field_type = "rating1-5"
    THEN RatingPicks \cap RatingChoices
    ELSE TypedTexts

\* What the widgets of the form of a skill may hold.
FormInputs(skill_id) ==
    LET shown == fields_to_display(DB, skill_id)
        ids == {shown[i].field_id : i \in 1..Len(shown)}
        fieldOf(id) == CHOOSE f \in Range(shown) : f.field_id = id
    IN {typed \in [ids -> TypedTexts \cup RatingChoices] :
           \A id \in ids : typed[id] \in WidgetTexts(fieldOf(id))}

NextForms ==
    \/ AddSkill("Guitar Practice")
    \/ \E field_name \in FieldNames, field_type \in FieldTypes :
          AddFormField(1, field_name, field_type)
    \/ \E field_id \in {1, 2} : DeleteFormField(field_id, TRUE)
    \/ /\ SaveReflection(1, <<<<1, <<"x">>>>>>, 0)
       /\ Within("Reflections", MaxFormReflections)
    \/ \E typed \in FormInputs(1) :
          /\ SubmitSkillReflection(1, typed)
          /\ Within("Reflections", MaxFormReflections)

SpecForms == Init /\ [][NextForms]_vars

(***************************************************************************)
(* SpecSkills: the skill registry.  Names differ in case only, or more;    *)
(* plans are set for skills that exist and for ids that do not.            *)
(***************************************************************************)
SkillNames == {"Guitar Practice", "guitar practice", "Piano"}
Descriptions == {"", "Six strings"}
Plans == {"", "Practice scales daily", "Slow tempo"}

NextSkills ==
    \/ \E name \in SkillNames, description \in Descriptions :
          /\ AddSkillDescribed(name, description)
          /\ Within("Skills", MaxSkills)
    \/ \E skill_id \in 1..MaxSkills + 1, plan \in Plans :
          UpdateSkillPlan(skill_id, plan)

SpecSkills == Init /\ [][NextSkills]_vars

(***************************************************************************)
(* SpecList: reflections of two skills and generic reflections saved at    *)
(* different times and listed.  Skills and fields are added in the order   *)
(* of their pools; the entries dict names the second field first.          *)
(***************************************************************************)
SkillNamePool == <<"Guitar Practice", "Piano">>
ListEntries == <<<<2, <<"x">>>>, <<1, <<"4">>>>>>
MergeLimits == {1, 2, DefaultLimit}

NextList ==
    \/ /\ sqlite_sequence.Skills < Len(SkillNamePool)
       /\ AddSkill(SkillNamePool[sqlite_sequence.Skills + 1])
    \/ /\ sqlite_sequence.FormFields < 2
       /\ AddFormField(1, FieldNamePool[sqlite_sequence.FormFields + 1], "text")
    \/ \E skill_id \in 1..Len(SkillNamePool) :
          /\ SaveReflection(skill_id, ListEntries, 0)
          /\ Within("Reflections", MaxListReflections)
    \/ /\ SaveGenericReflection(<<"a">>)
       /\ Within("GenericReflections", MaxListGeneric)
    \/ Tick

SpecList == Init /\ [][NextList]_vars

(***************************************************************************)
(* SpecDash: the weekly counts of the dashboard.  Reflections are saved    *)
(* and the dashboard is read on the first Monday (day 0), at the end of    *)
(* the Sunday after it, at the start of the Monday after that, and on the  *)
(* Monday and the Thursday five weeks after the first Monday.              *)
(***************************************************************************)
DashInstants ==
    {midnight(6) + TicksPerDay - 1, midnight(7), midnight(35), midnight(38)}
DashFilters == {NULL, All, 1, 2}

WithinDash ==
    sqlite_sequence'.Reflections + sqlite_sequence'.GenericReflections
        <= MaxDashRows

NextDash ==
    \/ \E t \in DashInstants : SetClock(t)
    \/ \E skill_id \in {1, 2} :
          SaveReflection(skill_id, <<>>, 0) /\ WithinDash
    \/ SaveGenericReflection(<<"a">>) /\ WithinDash
    \/ \E skill_id \in DashFilters : GetDashboardData(skill_id)

SpecDash == Init /\ [][NextDash]_vars

(***************************************************************************)
(* SpecRating: the average rating of the dashboard.  The fields of the     *)
(* pool are added in order; a reflection has one entry, for a field of its *)
(* skill, and the k-th reflection saved rates RatingPool[k].               *)
(***************************************************************************)
RatingFieldPool ==
    <<[skill_id |-> 1, field_name |-> "Rating", field_type |-> "rating1-5"],
      [skill_id |-> 2, field_name |-> "Rating", field_type |-> "rating1-5"],
      [skill_id |-> 1, field_name |-> "Mood", field_type |-> "rating1-5"],
      [skill_id |-> 3, field_name |-> "Rating", field_type |-> "number"]>>
RatingPool == <<str(4), str(5), str(4), str(3)>>
RatingFilters == {NULL, All, 1, 2, 3}

NextRating ==
    \/ /\ sqlite_sequence.FormFields < Len(RatingFieldPool)
       /\ LET f == RatingFieldPool[sqlite_sequence.FormFields + 1]
          IN AddFormField(f.skill_id, f.field_name, f.field_type)
    \/ \E field_id \in {1, 2} : DeleteFormField(field_id, TRUE)
    \/ \E f \in FormFields :
          /\ sqlite_sequence.Reflections < Len(RatingPool)
          /\ SaveReflection(f.skill_id,
                <<<<f.field_id, RatingPool[sqlite_sequence.Reflections + 1]>>>>,
                0)
          /\ Within("Reflections", MaxRatingReflections)
    \/ \E reflection_id \in 1..MaxRatingReflections :
          DeleteSkillReflection(reflection_id)
    \/ \E skill_id \in RatingFilters : GetDashboardData(skill_id)

SpecRating == Init /\ [][NextRating]_vars

(***************************************************************************)
(* SpecInit: initialize_db and the helpers called in any order, from a     *)
(* location with no file or with the file of an earlier version of the     *)
(* program, whose tables lack the columns added since.                     *)
(***************************************************************************)
InitSchemas ==
    {NoFile} \cup {[file |-> TRUE, tables |-> TableNames, columns |-> c] :
                      c \in SUBSET MigratedColumns}

InitStore ==
    /\ Skills = {}
    /\ FormFields = {}
    /\ Reflections = {}
    /\ ReflectionEntries = {}
    /\ GenericReflections = {}
    /\ sqlite_sequence = initialize_db.seq
    /\ now = 1
    /\ last = [op |-> "import", ok |-> TRUE, args |-> <<>>]
    /\ schema \in InitSchemas
    /\ connections = {}

NextInit ==
    \/ InitializeDb
    \/ \E name \in SkillNames :
          /\ AddSkillDescribed(name, "")
          /\ Within("Skills", MaxInitSkills)
    \/ \E plan \in Plans : UpdateSkillPlan(1, plan)
    \/ /\ AddFormField(1, FieldNamePool[1], "text")
       /\ Within("FormFields", MaxInitFields)
    \/ /\ SaveGenericReflection(<<"a">>)
       /\ Within("GenericReflections", MaxInitGeneric)

SpecInit == InitStore /\ [][NextInit]_vars

(***************************************************************************)
(* SpecEdit: fields of two skills, a reflection with an entry for every    *)
(* field the first skill has at the time, entries edited and fields        *)
(* retired, more than once.                                                *)
(***************************************************************************)
EditFieldPool ==
    <<[skill_id |-> 1, field_name |-> "Minutes", field_type |-> "number"],
      [skill_id |-> 1, field_name |-> "Notes", field_type |-> "text"],
      [skill_id |-> 2, field_name |-> "Minutes", field_type |-> "number"]>>
EditValues == {<<"x">>}

\* The entries of a form filled with 4 in every field displayed.
EditEntries(skill_id) ==
    LET fields == fields_to_display(DB, skill_id)
    IN [i \in 1..Len(fields) |-> <<fields[i].field_id, str(4)>>]

NextEdit ==
    \/ /\ sqlite_sequence.FormFields < Len(EditFieldPool)
       /\ LET f == EditFieldPool[sqlite_sequence.FormFields + 1]
          IN AddFormField(f.skill_id, f.field_name, f.field_type)
    \/ \E field_id \in 1..Len(EditFieldPool) : DeleteFormField(field_id, TRUE)
    \/ /\ SaveReflection(1, EditEntries(1), 0)
       /\ Within("Reflections", MaxEditReflections)
    \/ \E entry_id \in 1..sqlite_sequence.ReflectionEntries + 1,
          value \in EditValues :
          UpdateSkillReflectionEntry(entry_id, value)

SpecEdit == Init /\ [][NextEdit]_vars

(***************************************************************************)
(* SpecNames: skills added by the helper directly and through the Manage   *)
(* Skills form, their names typed character by character.                  *)
(***************************************************************************)
NameChars == {" ", "g"}

NextNames ==
    \/ \E name \in Texts(NameChars, MaxTextLen) :
          /\ AddSkill(name)
          /\ Within("Skills", MaxNamedSkills)
    \/ \E typed_name \in Texts(NameChars, MaxTextLen) :
          /\ SubmitNewSkill(typed_name, <<>>)
          /\ Within("Skills", MaxNamedSkills)

SpecNames == Init /\ [][NextNames]_vars

(***************************************************************************)
(* SpecUnknown: the helpers called with ids of rows that do not exist: an  *)
(* AUTOINCREMENT id not given out yet, or the id of a skill never added.   *)
(***************************************************************************)
UnknownEntries ==
    {<<<<f, str(4)>>>> : f \in 1..sqlite_sequence.FormFields + 1}

NextUnknown ==
    \/ AddSkill("Guitar Practice")
    \/ \E skill_id \in {1, 2} : AddFormField(skill_id, FieldNamePool[1], "text")
    \/ \E skill_id \in {1, 2}, entries \in UnknownEntries :
          /\ SaveReflection(skill_id, entries, 0)
          /\ Within("Reflections", MaxUnknownReflections)
    \/ /\ SaveGenericReflection(<<"a">>)
       /\ Within("GenericReflections", MaxUnknownGeneric)
    \/ UpdateSkillPlan(sqlite_sequence.Skills + 1, "Slow tempo")
    \/ DeleteFormField(sqlite_sequence.FormFields + 1, TRUE)
    \/ UpdateSkillReflectionEntry(sqlite_sequence.ReflectionEntries + 1,
                                  <<"x">>)
    \/ UpdateGenericReflection(sqlite_sequence.GenericReflections + 1,
                               <<"b">>)
    \/ DeleteGenericReflection(sqlite_sequence.GenericReflections + 1)
    \/ DeleteSkillReflection(sqlite_sequence.Reflections + 1)

SpecUnknown == Init /\ [][NextUnknown]_vars

(***************************************************************************)
(* SpecDelete: the three delete helpers called with the ids of rows that   *)
(* exist (or did), the confirmation of delete_form_field answered yes and  *)
(* no.                                                                     *)
(***************************************************************************)
NextDelete ==
    \/ AddFormField(1, FieldNamePool[1], "text")
    \/ /\ SaveReflection(1, EditEntries(1), 0)
       /\ Within("Reflections", MaxDeleteReflections)
    \/ /\ SaveGenericReflection(<<"a">>)
       /\ Within("GenericReflections", MaxDeleteGeneric)
    \/ \E field_id \in 1..sqlite_sequence.FormFields, answer \in BOOLEAN :
          DeleteFormField(field_id, answer)
    \/ \E generic_reflection_id \in 1..sqlite_sequence.GenericReflections :
          DeleteGenericReflection(generic_reflection_id)
    \/ \E reflection_id \in 1..sqlite_sequence.Reflections :
          DeleteSkillReflection(reflection_id)

SpecDelete == Init /\ [][NextDelete]_vars

(***************************************************************************)
(* SpecOwn: reflections of two skills saved through the form and by the    *)
(* helper directly, the helper with the id of any field that exists: of    *)
(* the skill or of the other one, active or retired.                       *)
(***************************************************************************)
\* The form of the skill with 4 typed or picked in every widget.
OwnInputs(skill_id) ==
    LET shown == fields_to_display(DB, skill_id)
    IN [id \in {shown[i].field_id : i \in 1..Len(shown)} |-> str(4)]

NextOwn ==
    \/ /\ sqlite_sequence.FormFields < Len(EditFieldPool)
       /\ LET f == EditFieldPool[sqlite_sequence.FormFields + 1]
          IN AddFormField(f.skill_id, f.field_name, f.field_type)
    \/ \E field_id \in 1..Len(EditFieldPool) : DeleteFormField(field_id, TRUE)
    \/ \E skill_id \in {1, 2}, f \in FormFields :
          /\ SaveReflection(skill_id, <<<<f.field_id, str(4)>>>>, 0)
          /\ Within("Reflections", MaxOwnReflections)
    \/ \E skill_id \in {1, 2} :
          /\ SubmitSkillReflection(skill_id, OwnInputs(skill_id))
          /\ Within("Reflections", MaxOwnReflections)

SpecOwn == Init /\ [][NextOwn]_vars

(***************************************************************************)
(* SpecRace: two callers add fields to one skill, their statements         *)
(* interleaved in every order.                                             *)
(***************************************************************************)
\* A name the skill has, or one of the next two of the pool, so that two
\* callers add the same new name or different ones.
RaceFieldNames ==
    {FieldNamePool[i] : i \in 1..Cardinality(FieldRowsOf(1)) + 2}

NextRace ==
    \/ \E caller \in Callers, field_name \in RaceFieldNames :
          AddFormFieldConnect(caller, 1, field_name, "text")
    \/ \E caller \in Callers : AddFormFieldCount(caller)
    \/ \E caller \in Callers : AddFormFieldName(caller)
    \/ \E caller \in Callers :
          /\ AddFormFieldInsert(caller)
          /\ Within("FormFields", MaxRaceFieldRows)

SpecRace == Init /\ [][NextRace]_vars

(***************************************************************************)
(* SpecConn: the exit paths of the operations: initialize_db returning and *)
(* raising, helpers returning True, returning False from inside the try    *)
(* block and from the except branch.                                       *)
(***************************************************************************)
NextConn ==
    \/ InitializeDb
    \/ \E fault \in 1..Len(CreateOrder) : InitializeDbRaises(fault)
    \/ Finalize
    \/ AddSkill("Guitar Practice")
    \/ AddFormField(1, FieldNamePool[1], "text")
    \/ \E fault \in 0..2 :
          /\ SaveReflection(1, <<<<1, str(4)>>>>, fault)
          /\ Within("Reflections", MaxConnReflections)
    \/ GetDashboardData(NULL)

SpecConn == InitStore /\ [][NextConn]_vars

(***************************************************************************)
(* Claims.  OpStep(op) holds of a step that is a call of op.               *)
(***************************************************************************)
OpStep(op) == last'.op = op /\ now' = now

ActiveCount(skill_id) == Cardinality(ActiveFields(DB, skill_id))
ActiveNamed(skill_id, field_name) ==
    \E f \in ActiveFields(DB, skill_id) : f.field_name = field_name

\* C1: every skill has at most 5 active fields in every reachable state, and
\* add_form_field on a skill that has 5 active fields returns False and adds
\* no field, however many soft-deleted fields the skill has.
C1_FieldCap ==
    /\ [](\A skill_id \in {f.skill_id : f \in FormFields} : ActiveCount(skill_id) <= MaxActiveFields)
    /\ [][OpStep("add_form_field")
            /\ ActiveCount(last'.args.skill_id) >= MaxActiveFields
          => ~last'.ok /\ FormFields' = FormFields]_vars

C1_Witness ==
    /\ last.op = "add_form_field" /\ ~last.ok
    /\ last.args.field_type \in FieldTypes
    /\ ActiveCount(last.args.skill_id) = MaxActiveFields
    /\ \E f \in FieldRowsOf(last.args.skill_id) : f.deleted_timestamp # NULL
    /\ \A f \in FieldRowsOf(last.args.skill_id) :
          f.field_name # last.args.field_name

\* C2: add_form_field with a valid type on a skill with fewer than 5 active
\* fields and no active field of that name returns True and inserts a field
\* of that name with deleted_timestamp NULL, also when a soft-deleted field
\* of the skill bears the name.
C2_AddSucceeds ==
    [][OpStep("add_form_field")
         /\ last'.args.field_type \in FieldTypes
         /\ ActiveCount(last'.args.skill_id) < MaxActiveFields
         /\ ~ActiveNamed(last'.args.skill_id, last'.args.field_name)
       => /\ last'.ok
          /\ \E f \in FormFields' \ FormFields :
                /\ f.skill_id = last'.args.skill_id
                /\ f.field_name = last'.args.field_name
                /\ f.deleted_timestamp = NULL]_vars

\* C3: no two active fields of a skill have the same name, and
\* add_form_field returns False and adds no field when the skill has an
\* active field of that name.
C3_ActiveNamesUnique ==
    /\ [](\A f, g \in FormFields :
            /\ f.skill_id = g.skill_id /\ f.field_name = g.field_name
            /\ f.deleted_timestamp = NULL /\ g.deleted_timestamp = NULL
            => f = g)
    /\ [][OpStep("add_form_field")
            /\ ActiveNamed(last'.args.skill_id, last'.args.field_name)
          => ~last'.ok /\ FormFields' = FormFields]_vars

C3_Witness ==
    /\ last.op = "add_form_field" /\ ~last.ok
    /\ last.args.field_type \in FieldTypes
    /\ ActiveCount(last.args.skill_id) < MaxActiveFields
    /\ ActiveNamed(last.args.skill_id, last.args.field_name)

\* C4: a call of add_form_field that returns False leaves every table, and
\* the AUTOINCREMENT counters, as they were.
C4_FailedAddChangesNothing ==
    [][OpStep("add_form_field") /\ ~last'.ok => tables' = tables]_vars

C4_Witness ==
    /\ last.op = "add_form_field" /\ ~last.ok
    /\ \/ ActiveCount(last.args.skill_id) = MaxActiveFields
       \/ ActiveNamed(last.args.skill_id, last.args.field_name)
    /\ FormFields # {} /\ Reflections # {}


\* The (field_id, value) pairs a listed reflection carries.
PairsOf(item) == {<<e.field_id, e.value>> : e \in Range(item.entries)}

\* The items of a list that are the skill reflection with this id.
Listed(list, reflection_id) ==
    {item \in Range(list) : item.type = "skill" /\ item.id = reflection_id}

\* C5: after delete_form_field(f), f is not among
\* get_form_fields(skill, include_deleted=False), is among
\* get_form_fields(skill, include_deleted=True), get_past_reflections
\* returns what it returned before, and every entry of a listed reflection
\* that references f is listed with f's name and type and its own value.
C5_SoftDeleteKeepsHistory ==
    [][OpStep("delete_form_field") /\ last'.ok
       => \A f \in FormFields : f.field_id = last'.args.field_id =>
            /\ \A g \in Range(get_form_fields(DB', f.skill_id, FALSE)) :
                  g.field_id # f.field_id
            /\ \E g \in Range(get_form_fields(DB', f.skill_id, TRUE)) :
                  g.field_id = f.field_id
            /\ \A skill_id \in {NULL, f.skill_id}, limit \in ListLimits :
                  get_past_reflections(DB', skill_id, limit)
                      = get_past_reflections(DB, skill_id, limit)
            /\ \A e \in ReflectionEntries' :
                  \A list \in get_past_reflections(DB', NULL, DefaultLimit) :
                      e.field_id = f.field_id
                      /\ Listed(list, e.reflection_id) # {}
                      => \E item \in Listed(list, e.reflection_id) :
                            [entry_id |-> e.entry_id, field_id |-> f.field_id,
                             field_name |-> f.field_name,
                             field_type |-> f.field_type, value |-> e.value]
                                \in Range(item.entries)]_vars

C5_Witness ==
    /\ last.op = "delete_form_field" /\ last.ok
    /\ \E f \in FormFields :
          /\ f.field_id = last.args.field_id /\ f.deleted_timestamp # NULL
          /\ \E list \in get_past_reflections(DB, f.skill_id, DefaultLimit) :
                \E item \in Range(list) :
                    \E e \in Range(item.entries) :
                        e.field_id = f.field_id /\ e.field_name = f.field_name

\* C6: every ReflectionEntry references a Reflection row that exists: once
\* delete_skill_reflection(id) has returned, no entry with reflection_id = id
\* is left.
C6_EntriesHaveReflection ==
    \A e \in ReflectionEntries :
        \E r \in Reflections : r.reflection_id = e.reflection_id

\* C7: save_reflection is all-or-nothing: a call that returns False leaves
\* every table and counter as it was; a call that returns True adds exactly
\* the Reflection row and one entry per item of entries.
C7_SaveAllOrNothing ==
    [][OpStep("save_reflection")
       => IF ~last'.ok
          THEN tables' = tables
          ELSE LET rid == last'.args.lastrowid
                   entries == last'.args.entries
               IN /\ Reflections' \ Reflections =
                        {[reflection_id |-> rid,
                          skill_id |-> last'.args.skill_id, timestamp |-> now]}
                  /\ Reflections \subseteq Reflections'
                  /\ ReflectionEntries \subseteq ReflectionEntries'
                  /\ \A e \in ReflectionEntries' \ ReflectionEntries :
                        e.reflection_id = rid
                  /\ Cardinality(ReflectionEntries' \ ReflectionEntries)
                        = Len(entries)
                  /\ {<<e.field_id, e.value>> :
                        e \in ReflectionEntries' \ ReflectionEntries}
                        = Range(entries)]_vars

C7_Witness ==
    /\ last.op = "save_reflection" /\ ~last.ok
    /\ last.args.fault = 3 /\ Len(last.args.entries) = 2
    /\ Reflections # {}

\* C8: a reflection saved by save_reflection for a skill that exists, with
\* entries for active fields of that skill, is returned by
\* get_past_reflections (for the skill and for all skills) whenever the
\* limit covers all reflections, and wherever it is returned it carries
\* exactly the (field_id, value) pairs submitted.
C8_RoundTrip ==
    [][/\ OpStep("save_reflection") /\ last'.ok
       /\ \E s \in Skills : s.skill_id = last'.args.skill_id
       /\ \A p \in Range(last'.args.entries) :
             \E f \in ActiveFields(DB, last'.args.skill_id) : f.field_id = p[1]
       => \A skill_id \in {NULL, last'.args.skill_id}, limit \in ListLimits :
             \A list \in get_past_reflections(DB', skill_id, limit) :
                /\ limit >= Cardinality(Reflections')
                               + Cardinality(GenericReflections')
                   => Listed(list, last'.args.lastrowid) # {}
                /\ \A item \in Listed(list, last'.args.lastrowid) :
                      PairsOf(item) = Range(last'.args.entries)]_vars

C8_Witness ==
    /\ last.op = "save_reflection" /\ last.ok
    /\ Len(last.args.entries) = 2
    /\ last.args.entries[1][2] # last.args.entries[2][2]
    /\ \E s \in Skills : s.skill_id = last.args.skill_id
    /\ \A list \in get_past_reflections(DB, last.args.skill_id, DefaultLimit) :
          \E item \in Listed(list, last.args.lastrowid) :
              PairsOf(item) = Range(last.args.entries)

Blank(text) == \A i \in 1..Len(text) : IsSpace(text[i])

TypeError(field_type, value) ==
    \/ field_type = "number" /\ value # <<>> /\ ~float_ok(value)
    \/ field_type = "rating1-5" /\ value \notin {str(i) : i \in 1..5}

\* C10 as claimed: save_reflection returns False and stores nothing when an
\* entry for an active field of the skill fails the check of the field's
\* type.
C10_SaveReflectionValidates ==
    [][OpStep("save_reflection")
         /\ (\E p \in Range(last'.args.entries) :
               \E f \in ActiveFields(DB, last'.args.skill_id) :
                   f.field_id = p[1] /\ TypeError(f.field_type, p[2]))
       => ~last'.ok /\ tables' = tables]_vars

\* C10 as amended: the form handler submit_skill_reflection stores nothing
\* when the value of a displayed field fails the check of the field's type;
\* every entry it stores for a number field parses as a float and every
\* entry it stores for a rating1-5 field is one of "1".."5"; what a text
\* field holds never makes it reject.
C10_SubmitValidates ==
    [][OpStep("submit_skill_reflection")
       => LET shown == Range(fields_to_display(DB, last'.args.skill_id))
              value(f) == WidgetValue(f, last'.args.typed[f.field_id])
          IN /\ (\E f \in shown : TypeError(f.field_type, value(f)))
                => ~last'.ok /\ tables' = tables
             /\ last'.ok
                => \A e \in ReflectionEntries' \ ReflectionEntries :
                      \A f \in FormFields :
                          f.field_id = e.field_id
                          => ~TypeError(f.field_type, e.value)
             /\ (/\ shown # {}
                 /\ \A f \in shown :
                       f.field_type # "text"
                       => value(f) # <<>> /\ ~TypeError(f.field_type, value(f)))
                => last'.ok]_vars

C10_Witness ==
    /\ last.op = "submit_skill_reflection" /\ ~last.ok
    /\ \E f \in ActiveFields(DB, last.args.skill_id) :
          /\ f.field_type = "number"
          /\ last.args.typed[f.field_id] = <<"x">>
    /\ \A f \in ActiveFields(DB, last.args.skill_id) :
          f.field_type = "rating1-5" => last.args.typed[f.field_id] # <<>>

\* C11: add_skill returns False and inserts nothing when a skill with
\* exactly that name exists (a name differing in case is another name), and
\* otherwise returns True and inserts the skill under a new id; skill names
\* are pairwise distinct in every reachable state.
C11_SkillNamesUnique ==
    /\ [](\A s, t \in Skills : s.name = t.name => s = t)
    /\ [][OpStep("add_skill")
          => IF \E s \in Skills : s.name = last'.args.name
             THEN ~last'.ok /\ tables' = tables
             ELSE /\ last'.ok
                  /\ \E s \in Skills' :
                        /\ Skills' = Skills \cup {s}
                        /\ s.name = last'.args.name
                        /\ s.description = last'.args.description
                        /\ \A t \in Skills : t.skill_id # s.skill_id]_vars

C11_Witness ==
    /\ \E s, t \in Skills :
          s.name = "Guitar Practice" /\ t.name = "guitar practice"
    /\ last.op = "add_skill" /\ ~last.ok
    /\ last.args.name \in {s.name : s \in Skills}

\* C18: update_skill_plan(id, p) on a skill that exists, followed by
\* get_skill_details(id), yields plan = p, empty p included, with the name
\* and description the skill had; every other skill and every other table
\* is left as it was.
C18_PlanRoundTrip ==
    [][OpStep("update_skill_plan")
         /\ (\E t \in Skills : t.skill_id = last'.args.skill_id)
       => /\ last'.ok
          /\ get_skill_details(DB', last'.args.skill_id) =
                [get_skill_details(DB, last'.args.skill_id)
                    EXCEPT !.plan = last'.args.plan]
          /\ \A s \in Skills :
                s.skill_id # last'.args.skill_id => s \in Skills'
          /\ Cardinality(Skills') = Cardinality(Skills)
          /\ <<FormFields, Reflections, ReflectionEntries,
                GenericReflections, sqlite_sequence>>' =
             <<FormFields, Reflections, ReflectionEntries,
               GenericReflections, sqlite_sequence>>]_vars

C18_Witness ==
    /\ last.op = "update_skill_plan" /\ last.ok
    /\ last.args.plan = ""
    /\ \E t \in Skills : t.skill_id = last.args.skill_id
    /\ get_skill_details(DB, last.args.skill_id).plan = ""
    /\ get_skill_details(DB, last.args.skill_id).description # ""
    /\ \E s \in Skills :
          s.skill_id # last.args.skill_id /\ s.plan = "Practice scales daily"

\* What identifies a listed item: its kind, its id and its timestamp.
KeyOf(item) == <<item.type, item.id, item.timestamp>>

\* The keys of all generic reflections and of the reflections of all skills.
AllKeys ==
    {<<"generic", g.generic_reflection_id, g.timestamp>> :
        g \in GenericReflections}
    \cup {<<"skill", r.reflection_id, r.timestamp>> :
            r \in {x \in Reflections :
                      \E s \in Skills : s.skill_id = x.skill_id}}

NewestFirst(list) ==
    \A i, j \in 1..Len(list) : i < j => list[i].timestamp >= list[j].timestamp

\* C12: get_past_reflections(None, limit) returns the limit newest items of
\* the union of all generic reflections and all reflections of all skills:
\* min(limit, size of the union) distinct items of the union, newest first,
\* none of them older than an item left out; so what is truncated away is
\* decided over the merged streams, not over each stream.
C12_MergeThenTruncate ==
    \A limit \in MergeLimits :
        \A list \in get_past_reflections(DB, NULL, limit) :
            LET keys == {KeyOf(list[i]) : i \in 1..Len(list)}
            IN /\ Len(list) <= limit
               /\ Len(list) = Min(limit, Cardinality(AllKeys))
               /\ Cardinality(keys) = Len(list)
               /\ keys \subseteq AllKeys
               /\ NewestFirst(list)
               /\ \A k \in AllKeys \ keys :
                     \A i \in 1..Len(list) : list[i].timestamp >= k[3]

C12_Witness ==
    /\ Cardinality(AllKeys) = 3
    /\ \E list \in get_past_reflections(DB, NULL, 2) :
          /\ Len(list) = 2
          /\ list[1].type = "generic" /\ list[2].type = "skill"
          /\ \E k \in AllKeys :
                k[1] = "skill" /\ k[3] < list[2].timestamp

\* C13: get_past_reflections(s, limit) returns only skill reflections of
\* skill s (rows of Reflections with skill_id = s), newest first, no generic
\* reflection, and the entries of each are in ascending order of field id.
C13_SkillListing ==
    \A skill_id \in {s.skill_id : s \in Skills} \cup {r.skill_id : r \in Reflections},
       limit \in MergeLimits :
        \A list \in get_past_reflections(DB, skill_id, limit) :
            /\ Len(list) <= limit
            /\ NewestFirst(list)
            /\ \A i \in 1..Len(list) :
                  /\ list[i].type = "skill"
                  /\ list[i].skill_id = skill_id
                  /\ \E r \in Reflections :
                        /\ r.reflection_id = list[i].id
                        /\ r.skill_id = skill_id
                        /\ r.timestamp = list[i].timestamp
                  /\ \A a, b \in 1..Len(list[i].entries) :
                        a < b => list[i].entries[a].field_id
                                    < list[i].entries[b].field_id

C13_Witness ==
    /\ GenericReflections # {}
    /\ \E r \in Reflections : r.skill_id = 2
    /\ \E list \in get_past_reflections(DB, 1, DefaultLimit) :
          /\ Len(list) = 1
          /\ Len(list[1].entries) = 2
          /\ list[1].entries[1].field_id = 1
          /\ list[1].entries[1].value = <<"4">>

\* The Monday of the week of a day, and weekStart[i] for i in 0..4 as the
\* claims have it: the Monday 4 - i weeks before the Monday of this week.
MondayOf(today) == CHOOSE m \in today - 6..today : m % 7 = 0
weekStart(i, today) == MondayOf(today) - 7 * (4 - i)

\* The reflections a skill filter has in scope, tagged with table and id.
InScope(skill_id) ==
    {<<"skill", r.reflection_id, r.timestamp>> :
        r \in {x \in Reflections :
                  skill_id \in {NULL, All} \/ x.skill_id = skill_id}}
    \cup {<<"generic", g.generic_reflection_id, g.timestamp>> :
            g \in {x \in GenericReflections : skill_id \in {NULL, All}}}

InWindow(x, today) ==
    weekStart(0, today) <= date(x[3]) /\ date(x[3]) < weekStart(4, today) + 7

Total(counts) == SumOf(counts, DOMAIN counts)

\* C14: the count get_dashboard_data returns for week i is the number of
\* reflections in scope whose date d has weekStart[i] <= d < weekStart[i] + 7;
\* so a reflection of the 5-week window is counted in exactly one bucket and
\* one outside the window in none.
C14_WeekBuckets ==
    [][OpStep("get_dashboard_data")
       => \A i \in 0..4 :
            last'.args.data.weekly_counts[i + 1] =
                Cardinality({x \in InScope(last'.args.skill_id) :
                    /\ weekStart(i, date(now)) <= date(x[3])
                    /\ date(x[3]) < weekStart(i, date(now)) + 7})]_vars

C14_Witness ==
    /\ last.op = "get_dashboard_data"
    /\ last.args.data = get_dashboard_data(DB, last.args.skill_id, now)
    /\ weekday(date(now)) = 3
    /\ last.args.data.weekly_counts = <<1, 0, 0, 0, 0>>
    /\ \E x \in InScope(last.args.skill_id) :
          date(x[3]) = weekStart(0, date(now)) - 1

\* C15: for every skill filter the bucket counts of get_dashboard_data sum
\* to at most overall_count, and overall_count is the number of all generic
\* reflections plus all skill reflections.
C15_CountsWithinOverall ==
    [][OpStep("get_dashboard_data")
       => /\ Total(last'.args.data.weekly_counts)
                <= last'.args.data.overall_count
          /\ last'.args.data.overall_count =
                Cardinality(GenericReflections) + Cardinality(Reflections)]_vars

C15_Witness ==
    /\ last.op = "get_dashboard_data"
    /\ last.args.data = get_dashboard_data(DB, last.args.skill_id, now)
    /\ last.args.skill_id = All
    /\ GenericReflections # {} /\ Reflections # {}
    /\ Total(last.args.data.weekly_counts) = last.args.data.overall_count

\* C16: with skill_id None or "All" the weeks count the generic and the
\* skill reflections of the window; with the id of a skill they count the
\* reflections of that skill in the window and no generic reflection.
C16_FilterScope ==
    [][OpStep("get_dashboard_data")
       => LET today == date(now)
              generic == {g \in GenericReflections :
                            InWindow(<<"generic", g.generic_reflection_id,
                                       g.timestamp>>, today)}
              skill == {r \in Reflections :
                          InWindow(<<"skill", r.reflection_id, r.timestamp>>,
                                   today)}
          IN Total(last'.args.data.weekly_counts) =
                IF last'.args.skill_id \in {NULL, All}
                THEN Cardinality(generic) + Cardinality(skill)
                ELSE Cardinality({r \in skill :
                                    r.skill_id = last'.args.skill_id})]_vars

C16_Witness ==
    /\ last.op = "get_dashboard_data"
    /\ last.args.data = get_dashboard_data(DB, last.args.skill_id, now)
    /\ last.args.skill_id = 1
    /\ Total(last.args.data.weekly_counts) = 1
    /\ \E g \in GenericReflections :
          InWindow(<<"generic", g.generic_reflection_id, g.timestamp>>,
                   date(now))

\* The number of hundredths a string d.dd reads as.
Hundredths(text) ==
    LET digit(c) == CHOOSE d \in 0..9 : DigitChars[d + 1] = c
    IN 100 * digit(text[1]) + 10 * digit(text[3]) + digit(text[4])

\* C17: the average rating of get_dashboard_data is the mean, to two
\* decimals, of the values of exactly the ReflectionEntries whose field is
\* named "Rating", has type rating1-5 and is active (and belongs to the
\* skill given, when one is given), and none when there is no such entry.
C17_AverageRating ==
    [][OpStep("get_dashboard_data")
       => LET rows == {e \in ReflectionEntries :
                        \E f \in FormFields :
                            /\ f.field_id = e.field_id
                            /\ f.field_name = "Rating"
                            /\ f.field_type = "rating1-5"
                            /\ f.deleted_timestamp = NULL
                            /\ \/ last'.args.skill_id \in {NULL, All}
                               \/ f.skill_id = last'.args.skill_id}
              val == [e \in rows |-> CastReal(e.value)]
              avg == last'.args.data.skill_aggregates
              n == Cardinality(rows)
              d == Hundredths(avg) * n - 100 * SumOf(val, rows)
          IN IF rows = {} THEN avg = <<>>
             ELSE /\ Len(avg) = 4 /\ avg[2] = "."
                  /\ -n <= 2 * d /\ 2 * d <= n]_vars

\* C19: after initialize_db returns, the five tables exist, whatever the
\* store was before the call.
C19_InitializeCreatesTables ==
    [][OpStep("initialize_db") => schema'.tables = TableNames]_vars

\* C20: initialize_db called on a store already initialized, after any
\* sequence of operations, changes neither the schema nor any stored row.
C20_InitializeIdempotent ==
    [][OpStep("initialize_db") /\ schema = UpToDate
       => UNCHANGED <<schema, tables>>]_vars

\* initialize_db has returned on a store that held a skill and a
\* reflection, which are still there.
C20_Witness ==
    /\ last.op = "initialize_db"
    /\ schema = UpToDate
    /\ Skills # {}
    /\ GenericReflections # {}

\* C30: soft deletion is irreversible: a field whose deleted_timestamp is
\* set keeps it set after every operation, so it is not listed by
\* get_form_fields(skill, include_deleted=False) and is not among the
\* active fields the cap counts.
C30_SoftDeleteIrreversible ==
    [][\A skill_id \in {f.skill_id : f \in FormFields} :
          LET retired == {f.field_id : f \in {g \in FieldRowsOf(skill_id) :
                                                g.deleted_timestamp # NULL}}
              listed == {g.field_id :
                           g \in Range(get_form_fields(DB', skill_id, FALSE))}
              counted == {g.field_id : g \in ActiveFields(DB', skill_id)}
          IN retired # {} =>
                /\ \A id \in retired :
                      \E g \in FormFields' :
                          g.field_id = id /\ g.deleted_timestamp # NULL
                /\ retired \cap listed = {}
                /\ retired \cap counted = {}]_vars

\* A field was retired, deleted again, and the skill was filled up to the
\* cap afterwards.
C30_Witness ==
    /\ last.op = "delete_form_field" /\ last.ok
    /\ \E f \in FormFields :
          /\ f.field_id = last.args.field_id
          /\ f.deleted_timestamp # NULL
          /\ ActiveCount(f.skill_id) = MaxActiveFields
          /\ Cardinality(FieldRowsOf(f.skill_id)) > MaxActiveFields

\* C27: update_skill_reflection_entry(entry_id, v) sets the value of that
\* entry to v, whatever the type of its field, and leaves its
\* reflection_id and field_id, every other entry, and all reflections,
\* fields and skills unchanged.
C27_UpdateEntryFrame ==
    [][OpStep("update_skill_reflection_entry")
       => /\ last'.ok
          /\ ReflectionEntries' =
                {IF e.entry_id = last'.args.entry_id
                 THEN [entry_id |-> e.entry_id,
                       reflection_id |-> e.reflection_id,
                       field_id |-> e.field_id,
                       value |-> last'.args.value]
                 ELSE e : e \in ReflectionEntries}
          /\ UNCHANGED <<Reflections, FormFields, Skills,
                         GenericReflections>>]_vars

\* The entry of a number field was set to "x"; another entry of the same
\* reflection keeps its value.
C27_Witness ==
    /\ last.op = "update_skill_reflection_entry"
    /\ \E e, other \in ReflectionEntries :
          /\ e.entry_id = last.args.entry_id
          /\ e.value = <<"x">>
          /\ \E f \in FormFields :
                f.field_id = e.field_id /\ f.field_type = "number"
          /\ other.reflection_id = e.reflection_id
          /\ other.value = str(4)

\* C28: delete_form_field(f) changes only the deleted_timestamp of field f:
\* every ReflectionEntry, every Reflection and every other FormField is
\* unchanged; called on a field already retired it leaves the field
\* retired and the active fields of the skill as they were.
C28_SoftDeleteFrame ==
    [][OpStep("delete_form_field") /\ last'.ok
       => /\ UNCHANGED <<ReflectionEntries, Reflections, Skills,
                         GenericReflections>>
          /\ Cardinality(FormFields') = Cardinality(FormFields)
          /\ \A f \in FormFields :
                IF f.field_id # last'.args.field_id
                THEN f \in FormFields'
                ELSE /\ \E g \in FormFields' :
                          /\ g.deleted_timestamp # NULL
                          /\ g = [f EXCEPT
                                    !.deleted_timestamp = g.deleted_timestamp]
                     /\ f.deleted_timestamp # NULL
                          => ActiveFields(DB', f.skill_id)
                                = ActiveFields(DB, f.skill_id)]_vars

\* A field with a stored entry was retired while another field of its
\* skill and a field of another skill exist.
C28_Witness ==
    /\ last.op = "delete_form_field" /\ last.ok
    /\ \E f, g, h \in FormFields :
          /\ f.field_id = last.args.field_id
          /\ f.deleted_timestamp # NULL
          /\ \E e \in ReflectionEntries : e.field_id = f.field_id
          /\ g.skill_id = f.skill_id /\ g.deleted_timestamp = NULL
          /\ h.skill_id # f.skill_id

\* C25 as claimed: every stored Skill has a non-empty name: add_skill with
\* an empty name fails and inserts nothing.
C25_SkillNamesNonEmpty == \A s \in Skills : s.name # <<>>

\* C25 as amended: the form handler submit_new_skill adds no skill when the
\* name typed is empty or whitespace only, and a skill it adds has the name
\* typed without its leading and trailing whitespace, which is not empty.
C25_SubmitNewSkillRejectsEmpty ==
    [][OpStep("submit_new_skill")
       => IF Blank(last'.args.typed_name)
          THEN ~last'.ok /\ tables' = tables
          ELSE /\ \A s \in Skills' \ Skills :
                     /\ s.name = strip(last'.args.typed_name)
                     /\ s.name # <<>>
                     /\ ~IsSpace(Head(s.name))
               /\ last'.ok <=> Skills' # Skills]_vars

\* The form refused a name of spaces while a skill is stored.
C25_Witness ==
    /\ last.op = "submit_new_skill" /\ ~last.ok
    /\ Len(last.args.typed_name) > 0
    /\ Blank(last.args.typed_name)
    /\ Skills # {}

\* The call that made last references an id that no row of db has.
UnknownId(db, call) ==
    LET skill == call.args.skill_id \notin {t.skill_id : t \in db.Skills}
    IN CASE call.op \in {"update_skill_plan", "add_form_field"} -> skill
         [] call.op = "save_reflection" ->
              \/ skill
              \/ \E i \in DOMAIN call.args.entries :
                    call.args.entries[i][1]
                        \notin {f.field_id : f \in db.FormFields}
         [] call.op = "delete_form_field" ->
              call.args.field_id \notin {f.field_id : f \in db.FormFields}
         [] call.op = "update_skill_reflection_entry" ->
              call.args.entry_id
                  \notin {e.entry_id : e \in db.ReflectionEntries}
         [] call.op \in {"update_generic_reflection",
                         "delete_generic_reflection"} ->
              call.args.generic_reflection_id
                  \notin {g.generic_reflection_id :
                             g \in db.GenericReflections}
         [] call.op = "delete_skill_reflection" ->
              call.args.reflection_id
                  \notin {r.reflection_id : r \in db.Reflections}
         [] OTHER -> FALSE

\* C23: an operation that references an id which does not exist reports
\* failure and leaves the stored state unchanged.
C23_UnknownIdFails ==
    [][now' = now /\ last' # last /\ UnknownId(DB, last')
       => ~last'.ok /\ tables' = tables]_vars

\* C26: no operation removes a FormField row, and the field_id of every
\* ReflectionEntry is the id of a FormField row, retired or not.
C26_EntriesResolve ==
    [][/\ \A f \in FormFields :
             \E g \in FormFields' : g.field_id = f.field_id
       /\ \A e \in ReflectionEntries' :
             \E f \in FormFields' : f.field_id = e.field_id]_vars

\* The step is a call of delete_generic_reflection or
\* delete_skill_reflection with the id of a row, and the row is gone.
ReflectionDeleted ==
    /\ OpStep("delete_generic_reflection")
       /\ (\E g \in GenericReflections :
              g.generic_reflection_id = last'.args.generic_reflection_id)
       => /\ last'.ok
          /\ \A g \in GenericReflections' :
                g.generic_reflection_id # last'.args.generic_reflection_id
    /\ OpStep("delete_skill_reflection")
       /\ (\E r \in Reflections :
              r.reflection_id = last'.args.reflection_id)
       => /\ last'.ok
          /\ \A r \in Reflections' :
                r.reflection_id # last'.args.reflection_id

\* The field the step's delete_form_field names is retired after the step.
FieldRetired ==
    /\ last'.ok
    /\ \E f \in FormFields' :
          f.field_id = last'.args.field_id /\ f.deleted_timestamp # NULL

\* C24 as claimed: delete_form_field, delete_generic_reflection and
\* delete_skill_reflection, invoked with an existing id, perform the
\* deletion whatever the confirmation decision.
C24_DeletesUnconditional ==
    [][/\ ReflectionDeleted
       /\ OpStep("delete_form_field")
          /\ (\E f \in FormFields : f.field_id = last'.args.field_id)
          => FieldRetired]_vars

\* C24 as amended: delete_generic_reflection and delete_skill_reflection
\* delete whenever invoked with an existing id; delete_form_field asks for
\* the confirmation itself, retires the field when the answer is yes and
\* returns False with the store unchanged when it is no.
C24_DeletesOnceConfirmed ==
    [][/\ ReflectionDeleted
       /\ OpStep("delete_form_field")
          /\ (\E f \in FormFields : f.field_id = last'.args.field_id)
          => IF last'.args.answer
             THEN FieldRetired
             ELSE ~last'.ok /\ tables' = tables]_vars

\* delete_form_field was answered no and the field is still active, after
\* a generic and a skill reflection were deleted.
C24_Witness ==
    /\ last.op = "delete_form_field" /\ ~last.ok /\ ~last.args.answer
    /\ \E f \in FormFields :
          f.field_id = last.args.field_id /\ f.deleted_timestamp = NULL
    /\ sqlite_sequence.GenericReflections > 0 /\ GenericReflections = {}
    /\ sqlite_sequence.Reflections > 0 /\ Reflections = {}

\* Every entry the step stores is for an active field of the skill the
\* call names, one entry at most for a reflection and a field.
EntriesBound ==
    /\ \A e \in ReflectionEntries' \ ReflectionEntries :
          \E f \in ActiveFields(DB, last'.args.skill_id) :
              f.field_id = e.field_id
    /\ \A d, e \in ReflectionEntries' :
          d.reflection_id = e.reflection_id /\ d.field_id = e.field_id
          => d = e

\* C29 as claimed: every ReflectionEntry written by save_reflection(skill,
\* entries) references a field that belongs to the skill and is active at
\* the time of saving, with one entry at most per reflection and field.
C29_SaveReflectionBound ==
    [][OpStep("save_reflection") /\ last'.ok => EntriesBound]_vars

\* C29 as amended: every ReflectionEntry written through the form
\* (submit_skill_reflection) references a field that belongs to the skill
\* of the form and is active, with one entry at most per reflection and
\* field.
C29_SubmitBound ==
    [][OpStep("submit_skill_reflection") /\ last'.ok => EntriesBound]_vars

\* The form of a skill with a retired field was submitted and its entry
\* stored, while the other skill has a field too.
C29_Witness ==
    /\ last.op = "submit_skill_reflection" /\ last.ok
    /\ \E e \in ReflectionEntries : e.reflection_id = last.args.lastrowid
    /\ \E f, h \in FormFields :
          /\ f.skill_id = last.args.skill_id /\ f.deleted_timestamp # NULL
          /\ h.skill_id # last.args.skill_id

\* C21: with two callers running add_form_field on one skill, their
\* statements interleaved, the skill never has more than 5 active fields
\* and never two active fields with the same name.
C21_RaceKeepsCapAndNames ==
    \A skill_id \in {f.skill_id : f \in FormFields} :
        /\ ActiveCount(skill_id) <= MaxActiveFields
        /\ \A f, g \in ActiveFields(DB, skill_id) :
              f.field_name = g.field_name => f = g

\* C22: every operation, initialize_db included, has closed the connection
\* it opened when it returns or raises: no connection is open between two
\* operations.
C22_NoConnectionHeld == connections = {}
====
